---- MODULE Spec2Model ----
(***************************************************************************)
(* S3SplitFileInput (heka/plugins/s3splitfile/s3splitfile_input.go):       *)
(* one lister goroutine writes the keys that pass the filter on listChan,  *)
(* S3WorkerCount fetcher goroutines read them, fetch the object, deliver   *)
(* its records and update six atomic counters; Stop closes the stop        *)
(* channel; Run waits on a sync.WaitGroup for the lister and the fetchers. *)
(***************************************************************************)
EXTENDS Integers, Sequences, FiniteSets, Bags, TLC

\* ------------------------------------------------------------------ bounds
\* Largest S3WorkerCount explored (the configured value ranges over 0..MaxWorkers).
MaxWorkers == 2
\* Largest number of entries the listing source yields in one run.
MaxList == 2
\* Buffer of listChan. The code allocates 1000 slots; the model keeps the
\* channel's semantics and scales the buffer down.
QueueCap == 1
\* Largest number of Stop calls the host makes (SpecReStop only).
MaxStopCalls == 2

Nil == "nil"
Workers == 1..MaxWorkers

\* ------------------------------------------------------------- input data
\* Object keys are strings, kept as sequences of characters.
Keys == { <<"a">>, <<"a", "/", "b">> }
\* S3ListResult{Key, Err}: an entry with Err set carries no usable key.
Entries == [Key : Keys, Err : {FALSE}] \cup [Key : {<<>>}, Err : {TRUE}]
\* S3ObjectMatchRegex: not configured, or a regular expression of one literal
\* character.
Regexes == {Nil, "a"}
\* S3Record{Record, Err}: Len is len(record), Err is nil, io.EOF or another error.
Item(l, e) == [Len |-> l, Err |-> e]
\* The trailing bytes a stream can leave unconsumed in the splitter: K.
Leftovers == {0, 2}
\* What S3FileIterator can yield for one object.
Streams == { << Item(0, Nil), Item(1, "EOF") >>,
             << Item(2, Nil), Item(0, "error"), Item(1, Nil) >> }

\* ------------------------------------------------------------------ state
VARIABLES
    S3WorkerCount,  \* config: number of fetchers
    objectMatch,    \* compiled S3ObjectMatchRegex, or Nil
    bucket,         \* "bucket" or Nil
    stop,           \* TRUE once the stop channel is closed
    listChan,       \* buffered occurrences (indices into enqueued)
    listClosed,     \* TRUE once listChan is closed
    stats,          \* the six counters
    runPc, wg,      \* Run: position, WaitGroup counter
    listerPc,       \* the lister goroutine's position
    fpc,            \* fetcher w's position
    s3Key,          \* fetcher w's s3Key (an occurrence; 0 = none)
    stream,         \* fetcher w's S3FileIterator channel contents
    pos,            \* fetcher w's index of the next item of stream
    err,            \* fetcher w's err returned by readS3File
    remaining,      \* bytes held unconsumed by fetcher w's splitterRunner
    panicked,       \* the process died of a runtime panic
    stopCalls,      \* number of Stop calls made by the host
    stopBeforeRun,  \* Stop was called before Run started
    \* history
    listed,         \* entries received from S3Iterator so far
    enqueued,       \* keys sent on listChan so far, in order
    fetchCount,     \* per occurrence: number of readS3File invocations
    drainCount,     \* per occurrence: number of times a drain loop discarded it
    streamOf,       \* per occurrence: the stream its fetch iterated
    leftOf,         \* per occurrence: the trailing bytes its stream left
    recvAfterStop,  \* occurrences the select received with stop already closed
    enqAfterStop,   \* sends on listChan made with stop already closed
    listedAfterStop,\* listing entries received with stop already closed
    closeCount,     \* close(listChan) calls made
    delivered       \* bag of <<occurrence, item index>> handed to DeliverRecord

config == <<S3WorkerCount, objectMatch, bucket>>
fetchVars == <<s3Key, stream, pos, err, remaining>>
stopVars == <<stop, panicked, stopCalls, stopBeforeRun>>
listHist == <<listed, enqueued, enqAfterStop, listedAfterStop, closeCount>>
fetchHist == <<fetchCount, drainCount, streamOf, leftOf, recvAfterStop, delivered>>
vars == <<config, stopVars, listChan, listClosed, stats, runPc, wg, listerPc,
          fpc, fetchVars, listHist, fetchHist>>

\* --------------------------------------------------------------- helpers
\* strings.LastIndex(s, c), 1-based: 0 when c does not occur.
LastIndex(s, c) ==
    IF \E k \in 1..Len(s) : s[k] = c
    THEN CHOOSE k \in 1..Len(s) : s[k] = c /\ \A j \in (k+1)..Len(s) : s[j] # c
    ELSE 0

BaseNameWholeKey(key) == key
\* r.Key.Key[strings.LastIndex(r.Key.Key, "/")+1:]
BaseName(key) == SubSeq(key, LastIndex(key, "/") + 1, Len(key))

\* regexp.MatchString for a one-character literal: some substring matches.
MatchString(re, s) == \E k \in 1..Len(s) : s[k] = re

\* The lister's decision for an entry that passed the stop check.
Found(r) ==
    /\ ~r.Err
    /\ (objectMatch = Nil \/ MatchString(objectMatch, BaseName(r.Key)))

StopClosedNever(st) == FALSE
\* case <-input.stop is ready once Stop has closed the channel.
StopClosed(st) == st

ErrNotNilNever(e) == FALSE
\* if err != nil, for the err readS3File returned
ErrNotNil(e) == e

RecvClosedEarly(ch, closed) == closed
\* A receive reports ok = false (and a range over the channel ends) when the
\* channel is closed and what was buffered has been received.
RecvClosed(ch, closed) == closed /\ ch = << >>

CanSendAlways(ch) == TRUE
\* A send on a buffered channel proceeds when the buffer has room.
CanSend(ch) == Len(ch) < QueueCap

RecvRestPeek(ch) == ch
\* What a receive leaves in the buffer.
RecvRest(ch) == Tail(ch)

AtomicAddInt64Sub(s, f, n) == [s EXCEPT ![f] = @ - n]
\* atomic.AddInt64(&input.f, n)
AtomicAddInt64(s, f, n) == [s EXCEPT ![f] = @ + n]

IsFailureAnyErr(it) == it.Err # Nil
\* err != nil && err != io.EOF
IsFailure(it) == it.Err # Nil /\ it.Err # "EOF"

HasRecordLong(it) == it.Len > 1
\* len(record) > 0
HasRecord(it) == it.Len > 0

NextPosEnd(s, p) == Len(s) + 1
\* The range loop of readS3File from item p on: the index of the first item
\* that is a failure or carries a record, Len(s) + 1 when there is none (the
\* items in between have no effect).
NextPos(s, p) ==
    LET hit == { q \in p..Len(s) : IsFailure(s[q]) \/ HasRecord(s[q]) }
    IN  IF hit = {} THEN Len(s) + 1
        ELSE CHOOSE q \in hit : \A q2 \in hit : q <= q2

\* The splitter's buffer once a stream with k trailing bytes has been read
\* to its end.
SplitterAtEnd(buf, k) == k
\* len(splitterRunner.GetRemainingData()), and the buffer afterwards: the
\* call hands the unconsumed bytes over and leaves none.
GetRemainingData(buf) == buf
SplitterAfterGet(buf) == 0

CountLeftoversOne(s, n) ==
    IF n > 0 THEN AtomicAddInt64(s, "processFileDiscardedBytes", 1) ELSE s
\* if lenLeftovers > 0 { atomic.AddInt64(&input.processFileDiscardedBytes, ...) }
CountLeftovers(s, n) ==
    IF n > 0 THEN AtomicAddInt64(s, "processFileDiscardedBytes", n) ELSE s

StopCasePcExit == "exit"
\* Where the select's stop case takes the fetcher: the drain loop.
StopCasePc == "drain"

Bump(f, k) == [f EXCEPT ![k] = @ + 1]

\* ------------------------------------------------------------------- Init
Init ==
    /\ S3WorkerCount \in 0..MaxWorkers
    /\ objectMatch \in Regexes
    /\ bucket \in {"bucket", Nil}
    /\ stop = FALSE
    /\ listChan = << >>
    /\ listClosed = FALSE
    /\ stats = [processFileCount |-> 0, processFileFailures |-> 0,
                processFileDiscardedBytes |-> 0, processMessageCount |-> 0,
                processMessageFailures |-> 0, processMessageBytes |-> 0]
    /\ runPc = "idle" /\ wg = 0
    /\ listerPc = "idle"
    /\ fpc = [w \in Workers |-> "idle"]
    /\ s3Key = [w \in Workers |-> 0]
    /\ stream = [w \in Workers |-> << >>]
    /\ pos = [w \in Workers |-> 0]
    /\ err = [w \in Workers |-> FALSE]
    /\ remaining = [w \in Workers |-> 0]
    /\ panicked = FALSE
    /\ stopCalls = 0
    /\ stopBeforeRun = FALSE
    /\ listed = << >>
    /\ enqueued = << >>
    /\ fetchCount = << >>
    /\ drainCount = << >>
    /\ streamOf = << >>
    /\ leftOf = << >>
    /\ recvAfterStop = {}
    /\ enqAfterStop = 0
    /\ listedAfterStop = 0
    /\ closeCount = 0
    /\ delivered = EmptyBag

\* ------------------------------------------------------------------- Stop
\* close(input.stop): closing a closed channel is a runtime panic.
Stop ==
    /\ ~panicked
    /\ stopCalls' = stopCalls + 1
    /\ stopBeforeRun' = (stopBeforeRun \/ runPc = "idle")
    /\ IF stop
       THEN panicked' = TRUE /\ stop' = stop
       ELSE stop' = TRUE /\ panicked' = panicked
    /\ UNCHANGED <<config, listChan, listClosed, stats, runPc, wg, listerPc,
                   fpc, fetchVars, listHist, fetchHist>>

\* The host calls Stop once, at shutdown.
HostStop == stopCalls = 0 /\ Stop
\* A caller that calls Stop again.
HostStopAgain == stopCalls >= 1 /\ stopCalls < MaxStopCalls /\ Stop

\* -------------------------------------------------------------------- Run
WaitGroupAddsFetchers(n) == n
\* The wg.Add(1) calls of Run: one for the lister, one per fetcher.
WaitGroupAdds(n) == 1 + n

\* Run up to wg.Wait(): wg.Add(1) and go for the lister, then
\* for i = 0; i < input.S3WorkerCount; i++ { wg.Add(1); go input.fetcher(...) }.
\* Starting a goroutine touches nothing the others read, so the whole
\* prologue is one step; each fetcher starts at its select.
RunStart ==
    /\ ~panicked /\ runPc = "idle"
    /\ wg' = wg + WaitGroupAdds(S3WorkerCount)
    /\ listerPc' = "iter"
    /\ fpc' = [w \in Workers |-> IF w <= S3WorkerCount THEN "select" ELSE "idle"]
    /\ runPc' = "wait"
    /\ UNCHANGED <<config, stopVars, listChan, listClosed, stats, fetchVars,
                   listHist, fetchHist>>

\* wg.Wait(); return nil
RunWait ==
    /\ ~panicked /\ runPc = "wait" /\ wg = 0
    /\ runPc' = "returned"
    /\ UNCHANGED <<config, stopVars, listChan, listClosed, stats, wg,
                   listerPc, fpc, fetchVars, listHist, fetchHist>>

\* ----------------------------------------------------------------- lister
\* for r := range S3Iterator(...): the source yields its next entry.
ListerNext ==
    /\ ~panicked /\ listerPc = "iter" /\ Len(listed) < MaxList
    /\ \E e \in Entries : listed' = Append(listed, e)
    /\ listedAfterStop' = listedAfterStop + (IF stop THEN 1 ELSE 0)
    /\ listerPc' = "check"
    /\ UNCHANGED <<config, stopVars, listChan, listClosed, stats, runPc, wg,
                   fpc, fetchVars, enqueued, enqAfterStop, closeCount, fetchHist>>

\* ... or the source's channel is closed: the range loop ends.
ListerEnd ==
    /\ ~panicked /\ listerPc = "iter"
    /\ listerPc' = "close"
    /\ UNCHANGED <<config, stopVars, listChan, listClosed, stats, runPc, wg,
                   fpc, fetchVars, listHist, fetchHist>>

BreakIteratorLoopReturn == "wgdone"
\* break iteratorLoop leaves the range loop for the close(input.listChan)
\* that follows it.
BreakIteratorLoop == "close"

\* select { case <-input.stop: break iteratorLoop; default: } and, past it, the
\* error and filter tests on r (r is the last element of listed).
ListerCheck ==
    /\ ~panicked /\ listerPc = "check"
    /\ listerPc' = IF StopClosed(stop) THEN BreakIteratorLoop
                   ELSE IF Found(listed[Len(listed)]) THEN "send" ELSE "iter"
    /\ UNCHANGED <<config, stopVars, listChan, listClosed, stats, runPc, wg,
                   fpc, fetchVars, listHist, fetchHist>>

\* input.listChan <- r.Key.Key
ListerSend ==
    /\ ~panicked /\ listerPc = "send" /\ CanSend(listChan)
    /\ enqueued' = Append(enqueued, listed[Len(listed)].Key)
    /\ listChan' = Append(listChan, Len(enqueued) + 1)
    /\ fetchCount' = Append(fetchCount, 0)
    /\ drainCount' = Append(drainCount, 0)
    /\ streamOf' = Append(streamOf, << >>)
    /\ leftOf' = Append(leftOf, 0)
    /\ enqAfterStop' = enqAfterStop + (IF stop THEN 1 ELSE 0)
    /\ listerPc' = "iter"
    /\ UNCHANGED <<config, stopVars, listClosed, stats, runPc, wg, fpc,
                   fetchVars, listed, listedAfterStop, closeCount, recvAfterStop,
                   delivered>>

\* close(input.listChan)
ListerClose ==
    /\ ~panicked /\ listerPc = "close"
    /\ listClosed' = TRUE
    /\ closeCount' = closeCount + 1
    /\ listerPc' = "wgdone"
    /\ UNCHANGED <<config, stopVars, listChan, stats, runPc, wg, fpc,
                   fetchVars, listed, enqueued, enqAfterStop, listedAfterStop,
                   fetchHist>>

\* wg.Done()
ListerDone ==
    /\ ~panicked /\ listerPc = "wgdone"
    /\ wg' = wg - 1
    /\ listerPc' = "done"
    /\ UNCHANGED <<config, stopVars, listChan, listClosed, stats, runPc, fpc,
                   fetchVars, listHist, fetchHist>>

\* ---------------------------------------------------------------- fetcher
\* The steps of a fetcher that touch nothing shared (entering readS3File,
\* passing an item without a record, leaving the range loop at the end of the
\* stream) are taken together with the shared operation before or after them.

\* case s3Key, ok = <-input.listChan with ok true, and the call of readS3File:
\* without a bucket it returns nil at once, otherwise it ranges over
\* S3FileIterator(input.bucket, s3Key).
FetcherRecv(w) ==
    /\ ~panicked /\ fpc[w] = "select" /\ listChan # << >>
    /\ LET k == Head(listChan) IN
       /\ s3Key' = [s3Key EXCEPT ![w] = k]
       /\ recvAfterStop' = IF stop THEN recvAfterStop \cup {k} ELSE recvAfterStop
       /\ fetchCount' = Bump(fetchCount, k)
       /\ IF bucket = Nil
          THEN /\ fpc' = [fpc EXCEPT ![w] = "fileCount"]
               /\ UNCHANGED <<stream, pos, streamOf>>
          ELSE /\ \E s \in Streams :
                    /\ stream' = [stream EXCEPT ![w] = s]
                    /\ streamOf' = [streamOf EXCEPT ![k] = s]
               /\ pos' = [pos EXCEPT ![w] = 1]
               /\ fpc' = [fpc EXCEPT ![w] = "range"]
    /\ listChan' = RecvRest(listChan)
    /\ UNCHANGED <<config, stopVars, listClosed, stats, runPc, wg, listerPc,
                   err, remaining, listHist, drainCount, leftOf, delivered>>

\* case s3Key, ok = <-input.listChan with ok false (the channel is closed and
\* empty): break, ok ends the loop
FetcherClosed(w) ==
    /\ ~panicked /\ fpc[w] = "select" /\ RecvClosed(listChan, listClosed)
    /\ fpc' = [fpc EXCEPT ![w] = "exit"]
    /\ UNCHANGED <<config, stopVars, listChan, listClosed, stats, runPc, wg,
                   listerPc, fetchVars, listHist, fetchHist>>

\* case <-input.stop
FetcherStop(w) ==
    /\ ~panicked /\ fpc[w] = "select" /\ StopClosed(stop)
    /\ fpc' = [fpc EXCEPT ![w] = StopCasePc]
    /\ UNCHANGED <<config, stopVars, listChan, listClosed, stats, runPc, wg,
                   listerPc, fetchVars, listHist, fetchHist>>

\* err != nil && err != io.EOF: count the failure, return err. The stream is
\* abandoned with some bytes unconsumed.
ReadS3FileError(w) ==
    /\ ~panicked /\ fpc[w] = "range"
    /\ LET p == NextPos(stream[w], pos[w]) IN
       /\ p <= Len(stream[w]) /\ IsFailure(stream[w][p])
       /\ pos' = [pos EXCEPT ![w] = p]
    /\ stats' = AtomicAddInt64(stats, "processMessageFailures", 1)
    /\ err' = [err EXCEPT ![w] = TRUE]
    /\ \E k \in Leftovers :
          /\ remaining' = [remaining EXCEPT ![w] = SplitterAtEnd(@, k)]
          /\ leftOf' = [leftOf EXCEPT ![s3Key[w]] = k]
    /\ fpc' = [fpc EXCEPT ![w] = "fileCount"]
    /\ UNCHANGED <<config, stopVars, listChan, listClosed, runPc, wg,
                   listerPc, s3Key, stream, listHist, fetchCount, drainCount,
                   streamOf, recvAfterStop, delivered>>

\* len(record) > 0: atomic.AddInt64(&input.processMessageCount, 1)
ReadS3FileCount(w) ==
    /\ ~panicked /\ fpc[w] = "range"
    /\ LET p == NextPos(stream[w], pos[w]) IN
       /\ p <= Len(stream[w]) /\ ~IsFailure(stream[w][p])
       /\ pos' = [pos EXCEPT ![w] = p]
    /\ stats' = AtomicAddInt64(stats, "processMessageCount", 1)
    /\ fpc' = [fpc EXCEPT ![w] = "bytes"]
    /\ UNCHANGED <<config, stopVars, listChan, listClosed, runPc, wg,
                   listerPc, s3Key, stream, err, remaining, listHist, fetchHist>>

\* atomic.AddInt64(&input.processMessageBytes, int64(len(record)))
ReadS3FileBytes(w) ==
    /\ ~panicked /\ fpc[w] = "bytes"
    /\ stats' = AtomicAddInt64(stats, "processMessageBytes", stream[w][pos[w]].Len)
    /\ fpc' = [fpc EXCEPT ![w] = "deliver"]
    /\ UNCHANGED <<config, stopVars, listChan, listClosed, runPc, wg,
                   listerPc, fetchVars, listHist, fetchHist>>

\* (*sr).DeliverRecord(record, *d), then on to the next item
ReadS3FileDeliver(w) ==
    /\ ~panicked /\ fpc[w] = "deliver"
    /\ delivered' = delivered (+) SetToBag({<<s3Key[w], pos[w]>>})
    /\ pos' = [pos EXCEPT ![w] = @ + 1]
    /\ fpc' = [fpc EXCEPT ![w] = "range"]
    /\ UNCHANGED <<config, stopVars, listChan, listClosed, stats, runPc, wg,
                   listerPc, s3Key, stream, err, remaining, listHist,
                   fetchCount, drainCount, streamOf, leftOf, recvAfterStop>>

\* readS3File has returned (at once, with an error, or because the stream
\* ended, leaving its trailing bytes in the splitter):
\* atomic.AddInt64(&input.processFileCount, 1)
FetcherFileCount(w) ==
    /\ ~panicked
    /\ \/ /\ fpc[w] = "fileCount"
          /\ UNCHANGED <<remaining, leftOf>>
       \/ /\ fpc[w] = "range" /\ NextPos(stream[w], pos[w]) > Len(stream[w])
          /\ \E k \in Leftovers :
                /\ remaining' = [remaining EXCEPT ![w] = SplitterAtEnd(@, k)]
                /\ leftOf' = [leftOf EXCEPT ![s3Key[w]] = k]
    /\ stats' = AtomicAddInt64(stats, "processFileCount", 1)
    /\ fpc' = [fpc EXCEPT ![w] = "leftovers"]
    /\ UNCHANGED <<config, stopVars, listChan, listClosed, runPc, wg,
                   listerPc, s3Key, stream, pos, err, listHist, fetchCount,
                   drainCount, streamOf, recvAfterStop, delivered>>

\* leftovers := splitterRunner.GetRemainingData(); count them when there are
\* any; then the test on err.
FetcherLeftovers(w) ==
    /\ ~panicked /\ fpc[w] = "leftovers"
    /\ LET lenLeftovers == GetRemainingData(remaining[w])
       IN  stats' = CountLeftovers(stats, lenLeftovers)
    /\ remaining' = [remaining EXCEPT ![w] = SplitterAfterGet(@)]
    /\ fpc' = [fpc EXCEPT ![w] = IF ErrNotNil(err[w]) THEN "fileFail" ELSE "select"]
    /\ IF ErrNotNil(err[w])
       THEN UNCHANGED <<s3Key, stream, pos, err>>
       ELSE /\ s3Key' = [s3Key EXCEPT ![w] = 0]
            /\ stream' = [stream EXCEPT ![w] = << >>]
            /\ pos' = [pos EXCEPT ![w] = 0]
            /\ err' = err
    /\ UNCHANGED <<config, stopVars, listChan, listClosed, runPc, wg,
                   listerPc, listHist, fetchHist>>

\* atomic.AddInt64(&input.processFileFailures, 1); continue
FetcherFileFail(w) ==
    /\ ~panicked /\ fpc[w] = "fileFail"
    /\ stats' = AtomicAddInt64(stats, "processFileFailures", 1)
    /\ fpc' = [fpc EXCEPT ![w] = "select"]
    /\ s3Key' = [s3Key EXCEPT ![w] = 0]
    /\ stream' = [stream EXCEPT ![w] = << >>]
    /\ pos' = [pos EXCEPT ![w] = 0]
    /\ err' = [err EXCEPT ![w] = FALSE]
    /\ UNCHANGED <<config, stopVars, listChan, listClosed, runPc, wg,
                   listerPc, remaining, listHist, fetchHist>>

\* for _ = range input.listChan {}: one identifier discarded
FetcherDrain(w) ==
    /\ ~panicked /\ fpc[w] = "drain" /\ listChan # << >>
    /\ listChan' = RecvRest(listChan)
    /\ drainCount' = Bump(drainCount, Head(listChan))
    /\ UNCHANGED <<config, stopVars, listClosed, stats, runPc, wg, listerPc,
                   fpc, fetchVars, listHist, fetchCount, streamOf, leftOf,
                   recvAfterStop, delivered>>

\* the drain loop ends when the channel is closed and empty; ok = false
FetcherDrainEnd(w) ==
    /\ ~panicked /\ fpc[w] = "drain" /\ RecvClosed(listChan, listClosed)
    /\ fpc' = [fpc EXCEPT ![w] = "exit"]
    /\ UNCHANGED <<config, stopVars, listChan, listClosed, stats, runPc, wg,
                   listerPc, fetchVars, listHist, fetchHist>>

\* wg.Done()
FetcherDone(w) ==
    /\ ~panicked /\ fpc[w] = "exit"
    /\ wg' = wg - 1
    /\ fpc' = [fpc EXCEPT ![w] = "done"]
    /\ UNCHANGED <<config, stopVars, listChan, listClosed, stats, runPc,
                   listerPc, fetchVars, listHist, fetchHist>>

Lister ==
    \/ ListerNext \/ ListerEnd \/ ListerCheck \/ ListerSend
    \/ ListerClose \/ ListerDone

Fetcher(w) ==
    \/ FetcherRecv(w) \/ FetcherClosed(w) \/ FetcherStop(w)
    \/ ReadS3FileError(w) \/ ReadS3FileCount(w) \/ ReadS3FileBytes(w)
    \/ ReadS3FileDeliver(w) \/ FetcherFileCount(w) \/ FetcherLeftovers(w)
    \/ FetcherFileFail(w) \/ FetcherDrain(w) \/ FetcherDrainEnd(w)
    \/ FetcherDone(w)

Run == RunStart \/ RunWait

Next == HostStop \/ Run \/ Lister \/ \E w \in Workers : Fetcher(w)

Spec == Init /\ [][Next]_vars

\* The Go scheduler runs every goroutine that can take a step; the host is
\* never obliged to call Stop.
Fairness ==
    /\ WF_vars(Run)
    /\ WF_vars(Lister)
    /\ \A w \in Workers : WF_vars(Fetcher(w))

FairSpec == Spec /\ Fairness

\* A caller that may call Stop more than once.
NextReStop == Next \/ HostStopAgain

SpecReStop == Init /\ [][NextReStop]_vars

\* ----------------------------------------------------------------- claims
Occs == DOMAIN enqueued
Started == runPc # "idle"
Returned == runPc = "returned"

\* C1: no identifier that a fetcher's select received after Stop was signalled
\* is ever handed to readS3File.
C1_NoFetchAfterStop == \A k \in Occs : k \in recvAfterStop => fetchCount[k] = 0

\* C2: once Stop has been signalled during a Run with at least one fetcher,
\* Run eventually returns.
C2_StopTerminates ==
    (stop /\ Started /\ S3WorkerCount >= 1) ~> Returned

\* Run has returned after a Stop that found the lister still sending and left
\* identifiers for a drain loop.
C2_Witness ==
    /\ Returned /\ stop /\ S3WorkerCount >= 1
    /\ enqAfterStop = 1
    /\ \E k \in Occs : drainCount[k] = 1

\* C3: if Stop is never signalled, a Run that has started eventually returns,
\* for every S3WorkerCount.
C3_RunTerminates == Started ~> (stop \/ Returned)

\* C4: Stop never panics, also when the stop channel is already closed.
C4_SecondStopSafe == ~panicked

\* The entries the lister has finished with (r is still in hand at the stop
\* check and at the send).
Handled ==
    IF listerPc \in {"check", "send"}
    THEN SubSeq(listed, 1, Len(listed) - 1)
    ELSE listed
KeysOf(s) == [k \in 1..Len(s) |-> s[k].Key]

\* C5: listChan never buffers more than its capacity, and as long as Stop has
\* not been signalled the keys sent are exactly the listed keys that passed
\* the filter, in listing order: none is dropped at a full buffer.
C5_Backpressure ==
    /\ Len(listChan) <= QueueCap
    /\ ~stop => enqueued = KeysOf(SelectSeq(Handled, Found))

\* The lister is blocked at the send: the buffer is full.
C5_Witness == ~stop /\ listerPc = "send" /\ Len(listChan) = QueueCap

\* Sends and listing entries received after Stop: at most one of each.
C6_Counts == enqAfterStop <= 1 /\ listedAfterStop <= 1

\* C6: after Stop the lister sends at most one more identifier, receives at
\* most one more listing entry, and listChan is eventually closed.
C6_ListerStops == []C6_Counts /\ ((stop /\ Started) ~> listClosed)

\* C7: an occurrence taken off listChan is held by one fetcher only and is
\* handed to readS3File at most once.
C7_SingleOwner ==
    /\ \A v, w \in Workers : (v # w /\ s3Key[v] # 0) => s3Key[v] # s3Key[w]
    /\ \A w \in Workers : \A k \in 1..Len(listChan) : listChan[k] # s3Key[w]
    /\ \A k \in Occs : fetchCount[k] <= 1

\* Two fetchers are inside a fetch at the same time.
C7_Witness ==
    \A w \in Workers : s3Key[w] # 0 /\ fpc[w] \in {"bytes", "deliver"}

\* The records the streams of the fetched objects yield: the items that carry
\* a non-empty record.
Yielded ==
    UNION { { <<k, j>> : j \in { n \in DOMAIN streamOf[k] : streamOf[k][n].Len > 0 } } :
            k \in Occs }
AllSucceeded ==
    \A k \in Occs : \A j \in DOMAIN streamOf[k] :
        streamOf[k][j].Err \in {Nil, "EOF"}

\* C8: no record is delivered twice or made up, and when Run has returned with
\* every fetch successful the records delivered are exactly the records the
\* fetched objects' streams yielded, and processMessageCount is their number.
C8_NoDoubleDelivery ==
    /\ \A e \in BagToSet(delivered) : CopiesIn(e, delivered) = 1 /\ e \in Yielded
    /\ (Returned /\ AllSucceeded) =>
           /\ BagToSet(delivered) = Yielded
           /\ stats.processMessageCount = Cardinality(Yielded)

\* Run has returned after two successful fetches that delivered a record each.
C8_Witness ==
    /\ Returned /\ AllSucceeded /\ bucket # Nil
    /\ Cardinality(Yielded) = 2 /\ stats.processFileCount = 2

\* C9: no step decreases any of the six counters, and processFileFailures
\* never exceeds processFileCount.
C9_StatsMonotone ==
    /\ [][\A f \in DOMAIN stats : stats'[f] >= stats[f]]_vars
    /\ [](stats.processFileFailures <= stats.processFileCount)

\* Every counter has been incremented.
C9_Witness == \A f \in DOMAIN stats : stats[f] >= 1

\* The part of key after its last "/" (the whole key when it has none).
C10_BaseName(key) ==
    LET n == CHOOSE m \in 0..Len(key) :
                 /\ \A j \in (Len(key) - m + 1)..Len(key) : key[j] # "/"
                 /\ (m = Len(key) \/ key[Len(key) - m] = "/")
    IN  [j \in 1..n |-> key[Len(key) - n + j]]
C10_Passes(e) ==
    /\ ~e.Err
    /\ (objectMatch = Nil \/ MatchString(objectMatch, C10_BaseName(e.Key)))

\* The lister's step from its stop check for the entry r in hand.
C10_Decision(r, examined) ==
    (listerPc = "check" /\ listerPc' # "check" /\ examined) =>
        IF C10_Passes(r)
        THEN listerPc' = "send"
        ELSE listerPc' = "iter" /\ stats' = stats /\ enqueued' = enqueued
\* Nothing but the key of a passing entry in hand is ever sent.
C10_OnlyPassing(r) ==
    enqueued' # enqueued =>
        /\ listerPc = "send" /\ C10_Passes(r)
        /\ enqueued' = Append(enqueued, r.Key)

\* C10 as stated: every entry received from the listing goes to the send
\* exactly when it has no error and the filter is absent or matches its base
\* name, and is otherwise skipped with the lister going on.
C10_EveryEntry ==
    [][LET r == listed[Len(listed)] IN
       C10_Decision(r, TRUE) /\ C10_OnlyPassing(r)]_vars

\* C10 (amended): an entry that got past the stop check goes to the send
\* exactly when it has no error and the filter is absent or matches its base
\* name; a skipped entry changes no counter and sends nothing, and the lister
\* goes on to the next entry; nothing but such an entry's key is ever sent.
C10_FilterCorrect ==
    [][LET r == listed[Len(listed)] IN
       C10_Decision(r, ~stop) /\ C10_OnlyPassing(r)]_vars

\* With the filter "a": a/b was skipped (its base name is b), the lister went
\* on, and a was sent.
C10_Witness ==
    /\ objectMatch = "a" /\ Len(listed) = 2
    /\ listed[1].Key = <<"a", "/", "b">> /\ listed[2].Key = <<"a">>
    /\ enqueued = << <<"a">> >>
    /\ \A f \in DOMAIN stats : stats[f] = 0

\* The fetcher w is between the call of readS3File and the end of its
\* select case.
InFetch(w) ==
    fpc[w] \in {"range", "bytes", "deliver", "fileCount", "leftovers", "fileFail"}
\* Item j of the stream s is a non-end-of-stream error.
C11_IsError(s, j) == s[j].Err \notin {Nil, "EOF"}
\* The occurrences whose stream has yielded its error to readS3File.
C11_Failed ==
    { k \in Occs : \E j \in DOMAIN streamOf[k] :
        /\ C11_IsError(streamOf[k], j)
        /\ \A w \in Workers : s3Key[w] = k /\ fpc[w] \in {"range", "bytes", "deliver"}
                                => pos[w] >= j }
\* The records that come before the first error of their stream.
C11_BeforeError ==
    { e \in Yielded : \A j \in 1..e[2] : ~C11_IsError(streamOf[e[1]], j) }

\* C11: no record at or after a stream's error is delivered; when Run has
\* returned the records delivered and counted are exactly those before the
\* errors, and processMessageFailures and processFileFailures both equal the
\* number of objects whose stream yielded an error (an end of stream counts
\* for nothing); the step that counts the file failure adds exactly 1 and
\* takes the fetcher back to its select.
C11_ErrorAborts ==
    /\ [](/\ BagToSet(delivered) \subseteq C11_BeforeError
          /\ stats.processMessageFailures <= Cardinality(C11_Failed)
          /\ Returned =>
               /\ BagToSet(delivered) = C11_BeforeError
               /\ stats.processMessageCount = Cardinality(C11_BeforeError)
               /\ stats.processMessageFailures = Cardinality(C11_Failed)
               /\ stats.processFileFailures = Cardinality(C11_Failed))
    /\ [][\A w \in Workers :
            /\ (fpc[w] = "fileFail" /\ fpc'[w] # "fileFail") =>
                  /\ fpc'[w] = "select"
                  /\ stats'.processFileFailures = stats.processFileFailures + 1
            /\ delivered \sqsubseteq delivered']_vars

\* A fetch failed after delivering a record, and the fetcher went on to
\* fetch a second object.
C11_Witness ==
    /\ Returned /\ S3WorkerCount = 1
    /\ Cardinality(C11_Failed) = 1 /\ stats.processFileFailures = 1
    /\ stats.processFileCount = 2 /\ BagCardinality(delivered) = 2

RECURSIVE SumOver(_, _)
\* The sum of f over the set S.
SumOver(f, S) ==
    IF S = {} THEN 0
    ELSE LET k == CHOOSE x \in S : TRUE IN f[k] + SumOver(f, S \ {k})
\* The occurrences whose fetch is past its leftover accounting.
C12_Accounted ==
    { k \in Occs :
        /\ fetchCount[k] > 0
        /\ \A w \in Workers : s3Key[w] = k => fpc[w] = "fileFail" }

C13_Quiet ==
    bucket = Nil =>
        /\ stats.processMessageCount = 0
        /\ stats.processMessageBytes = 0
        /\ stats.processMessageFailures = 0
        /\ stats.processFileFailures = 0
        /\ delivered = EmptyBag

\* C13: with no bucket configured, records processed, record bytes, record
\* failures and file failures are 0 in every state, no record is delivered,
\* and a Run that has started returns.
C13_NoBucketNoOp == []C13_Quiet /\ ((bucket = Nil /\ Started) ~> Returned)

C15_FetchReturned ==
    { k \in Occs :
        /\ fetchCount[k] > 0
        /\ \A w \in Workers : s3Key[w] = k => fpc[w] \notin {"range", "bytes", "deliver"} }
C15_DeliveredBytes ==
    SumOver([e \in BagToSet(delivered) |-> CopiesIn(e, delivered) * streamOf[e[1]][e[2]].Len],
            BagToSet(delivered))

\* C15: processMessageCount and processMessageBytes count only records that
\* have been handed to DeliverRecord, and processFileCount only objects whose
\* readS3File call has returned.
C15_CountAfterWork ==
    /\ stats.processMessageCount <= BagCardinality(delivered)
    /\ stats.processMessageBytes <= C15_DeliveredBytes
    /\ stats.processFileCount <= Cardinality(C15_FetchReturned)

\* C16: listChan is closed at most once, only by the lister as it leaves its
\* loop, exactly once by the time the lister has finished, and nothing is sent
\* on it once it is closed.
C16_ClosedOnce ==
    /\ [](/\ closeCount <= 1
          /\ listClosed <=> closeCount = 1
          /\ listClosed => listerPc \in {"wgdone", "done"}
          /\ listerPc \in {"wgdone", "done"} => closeCount = 1)
    /\ [][listClosed => enqueued' = enqueued /\ Len(listChan') <= Len(listChan)]_vars

\* The lister closed listChan after a send because it observed stop, and Run
\* has returned.
C16_Witness ==
    /\ Returned /\ closeCount = 1 /\ stop
    /\ Len(enqueued) = 1 /\ listedAfterStop = 1 /\ Len(listed) = 2

\* Fetcher w is past readS3File for the object it holds.
C17_FetchOver(w) == fpc[w] \in {"fileCount", "leftovers", "fileFail"}
\* Fetcher w's step, seen from inside a fetch.
C17_Step(w) ==
    InFetch(w) =>
        /\ fpc'[w] = fpc[w] \/ InFetch(w)' \/ fpc'[w] = "select"
        /\ (fpc'[w] = "select" /\ fpc[w] # "select") =>
              fpc[w] \in {"leftovers", "fileFail"}
        /\ (fpc'[w] = "leftovers" /\ fpc[w] # "leftovers") =>
              stats'.processFileCount = stats.processFileCount + 1
        /\ (fpc'[w] # fpc[w] /\ fpc'[w] \in {"fileFail", "select"}) =>
              stats'.processFileCount = stats.processFileCount
        /\ fpc'[w] # "select" => s3Key'[w] = s3Key[w]

\* C17: a fetcher inside a fetch, with or without stop closed, goes on with
\* that fetch only: it is past readS3File only when every record before the
\* stream's end or first error has been delivered, it then adds 1 to
\* processFileCount, and only from there does it come back to its select.
C17_FetchNotInterrupted ==
    /\ [](\A w \in Workers : C17_FetchOver(w) =>
             \A e \in C11_BeforeError : e[1] = s3Key[w] => e \in BagToSet(delivered))
    /\ [][\A w \in Workers : C17_Step(w)]_vars

\* Stop was signalled while a fetcher was inside a fetch, and the fetcher
\* has delivered the object's record and counted the file.
C17_Witness ==
    \E w \in Workers :
        /\ stop /\ fpc[w] = "leftovers" /\ s3Key[w] \notin recvAfterStop
        /\ <<s3Key[w], 2>> \in BagToSet(delivered)
        /\ stats.processFileCount = 1

\* The listed entries that pass the filter.
C18_Passing == { i \in DOMAIN listed : C10_Passes(listed[i]) }

\* C18: when Run has returned with at least one fetcher, listChan is closed
\* and empty and every identifier sent was either fetched once or drained
\* once; without Stop none was drained and processFileCount is the number of
\* listed entries that passed the filter.
C18_AllAccounted ==
    (Returned /\ S3WorkerCount >= 1) =>
        /\ listClosed /\ listChan = << >>
        /\ \A k \in Occs :
              /\ fetchCount[k] + drainCount[k] = 1
              /\ \A w \in Workers : s3Key[w] # k
        /\ ~stop =>
              /\ \A k \in Occs : drainCount[k] = 0
              /\ stats.processFileCount = Cardinality(C18_Passing)
              /\ Len(enqueued) = Cardinality(C18_Passing)

\* Run has returned without Stop after two entries of which one passed a
\* configured filter.
C18_Witness ==
    /\ Returned /\ S3WorkerCount >= 1 /\ ~stop /\ objectMatch # Nil
    /\ Len(listed) = 2 /\ Cardinality(C18_Passing) = 1
    /\ stats.processFileCount = 1

\* C19: processFileFailures never exceeds processMessageFailures, and the
\* two are equal whenever no fetcher is inside a fetch.
C19_FailuresAgree ==
    /\ stats.processFileFailures <= stats.processMessageFailures
    /\ stats.processMessageFailures <= stats.processFileFailures + MaxWorkers
    /\ (\A w \in Workers : ~InFetch(w)) =>
          stats.processFileFailures = stats.processMessageFailures

\* Two fetches have failed and no fetcher is inside a fetch.
C19_Witness ==
    /\ stats.processFileFailures = 2 /\ stats.processMessageFailures = 2
    /\ \A w \in Workers : ~InFetch(w)

\* After a Stop that preceded Run nothing is sent, fetched or counted, and
\* the lister takes at most one listing entry.
C20_Nothing ==
    stopBeforeRun =>
        /\ enqueued = << >> /\ listChan = << >>
        /\ \A w \in Workers : ~InFetch(w) /\ s3Key[w] = 0
        /\ \A c \in DOMAIN stats : stats[c] = 0
        /\ delivered = EmptyBag
        /\ Len(listed) <= 1

\* C20: if Stop is signalled before Run starts, the lister sends nothing, no
\* fetcher calls readS3File, the six counters stay 0, the lister takes at most
\* one listing entry, and Run, once started, returns.
C20_StopBeforeRun ==
    []C20_Nothing /\ ((stopBeforeRun /\ Started) ~> Returned)

\* Run started after Stop, the lister received one passing entry that it did
\* not send, and Run has returned.
C20_Witness ==
    /\ stopBeforeRun /\ Returned /\ S3WorkerCount >= 1
    /\ Len(listed) = 1 /\ C10_Passes(listed[1]) /\ enqueued = << >>

====
